---- MODULE Spec2Model ----
(***************************************************************************)
(* The ChatBot component: the message list, the input buffer, the          *)
(* isThinking flag and the asynchronous handleSendMessage, whose           *)
(* invocations are suspended at two 500 ms timers and at one fetch.        *)
(*                                                                         *)
(* A string is a finite sequence of symbols; a symbol is a TLA+ string.    *)
(* The whitespace symbol is " ".  String concatenation is \o.              *)
(*                                                                         *)
(* Time: now is the reading of the millisecond clock.  A pending timer may *)
(* run at any later step; the order in which timers run is the order the   *)
(* delays allow (CanFire).  State updates queued with setMessages are      *)
(* applied in the order queued, so each handler or callback is one step.   *)
(*                                                                         *)
(* Spec explores overlapping submits with one settlement of each kind;     *)
(* SpecReplies explores every settlement of a fetch.                       *)
(***************************************************************************)
EXTENDS Integers, Sequences, FiniteSets, TLC

VARIABLES
    messages,    \* the messages state: the conversation, in display order
    inputValue,  \* the inputValue state: the text in the input field
    isThinking,  \* the isThinking state: the request-in-flight flag
    now,         \* the value Date.now() returns
    calls,       \* the invocations of handleSendMessage that passed the guard:
                 \* userText, typingId, where the async function stands (pc:
                 \* "waiting" for its timer, "fetching", "done"), and the
                 \* positions of the two messages it appended (0: not yet)
    timers,      \* the pending setTimeout callbacks, in the order they were
                 \* set, each with its delay
    requests,    \* the requests issued with fetch, in order
    assistantTitle,  \* the assistantTitle state: the header text
    rendered,    \* what the last render pass displayed for each message
    lastOp       \* history: the handler or callback that ran in the last step

vars == <<messages, inputValue, isThinking, now, calls, timers, requests,
          assistantTitle, rendered, lastOp>>

\* the state no handler of the conversation writes
display == <<assistantTitle, rendered>>

---------------------------------------------------------------------------
(* Bounds *)

\* number of accepted submits explored
MaxSubmits == 2
\* number of accepted submits explored with every kind of settlement
MaxReplySubmits == 1
\* last value of the millisecond clock explored
MaxClock == 2

---------------------------------------------------------------------------
(* Strings *)

Whitespace == {" ", "\n"}

RECURSIVE TrimStart(_)
TrimStart(s) ==
    IF s # <<>> /\ Head(s) \in Whitespace THEN TrimStart(Tail(s)) ELSE s

RECURSIVE TrimEnd(_)
TrimEnd(s) ==
    IF s # <<>> /\ s[Len(s)] \in Whitespace
    THEN TrimEnd(SubSeq(s, 1, Len(s) - 1))
    ELSE s

\* a guard that tests the raw buffer instead of the trimmed one
TrimNone(s) == s

\* String.prototype.trim
Trim(s) == TrimEnd(TrimStart(s))

\* strings the user can put into the input field
InputTexts ==
    { <<" ">>, <<"hi">>, <<" ", "hi", " ">> }

\* a blank one and one that is not blank
CoreInputTexts ==
    { <<" ">>, <<" ", "hi", " ">> }

ThinkingText == <<"Thinking...">>

FallbackText == <<"Sorry, something went wrong while fetching insights.">>

ModelName == "cx-kpi-insights-nlp-agent"

DefaultTitle == <<"FanViz Analytics Assistant">>

\* the delay of the timer that appends the placeholder
TypingDelay == 500

\* a wait shorter than the placeholder's delay
ShortWaitDelay == TypingDelay - 400

\* the delay the handler awaits before it issues the fetch
WaitDelay == 500

---------------------------------------------------------------------------
(* The network: what a fetch can settle with *)

\* a thrown value: an Error carrying a message, or a value that is no Error
MkError(m) == [isError |-> TRUE, message |-> m]

NonError == [isError |-> FALSE, message |-> <<>>]

\* an optional string field of a JSON object: absent, or present with a value
Absent == [present |-> FALSE, value |-> <<>>]

Present(v) == [present |-> TRUE, value |-> v]

\* one element of data.choices, with its message.content and its text
ChoiceObjects ==
    { [content |-> c, text |-> t] :
        c \in {Absent, Present(<<>>), Present(<<"Hello">>)},
        t \in {Absent, Present(<<>>), Present(<<"Hi there">>)} }

OtherChoice == [content |-> Present(<<"Other">>), text |-> Present(<<"Other text">>)]

\* data.choices: missing or empty, one choice, or a first choice and another
ChoiceLists ==
    {<<>>} \cup { <<c>> : c \in ChoiceObjects }
           \cup { <<c, OtherChoice>> :
                    c \in {[content |-> Absent, text |-> Absent],
                           [content |-> Present(<<"Hello">>), text |-> Absent]} }

StatusCodes == {200, 500}

\* what the fetch of one call settles with: a rejection carrying a thrown
\* value, or a response with a status and a body that parses as JSON or not
\* (the body of a response that is not ok is never read)
Rejections ==
    { [rejected |-> TRUE, error |-> e, status |-> 0, validJson |-> FALSE,
       choices |-> <<>>] :
        e \in {MkError(<<>>), MkError(<<"Failed to fetch">>), NonError} }

Responses ==
    { [rejected |-> FALSE, error |-> NonError, status |-> c, validJson |-> TRUE,
       choices |-> ch] : c \in {c \in StatusCodes : c < 300}, ch \in ChoiceLists }
    \cup
    { [rejected |-> FALSE, error |-> NonError, status |-> c, validJson |-> FALSE,
       choices |-> <<>>] : c \in StatusCodes }

Settlements == Rejections \cup Responses

\* one settlement for each way out of the handler: a reply, a status that is
\* not ok, a rejected fetch
CoreSettlements ==
    { s \in Settlements :
        \/ s.choices = <<[content |-> Present(<<"Hello">>), text |-> Absent]>>
        \/ ~s.rejected /\ s.status = 500
        \/ s.rejected /\ ~s.error.isError }

NoSettlement ==
    [rejected |-> FALSE, error |-> NonError, status |-> 0, validJson |-> FALSE,
     choices |-> <<>>]

\* response.ok
Ok(status) == status >= 200 /\ status <= 299

\* a || b on optional strings: the value of a when it is truthy
Truthy(f) == f.present /\ f.value # <<>>

\* the two fields read in the other order
ExtractReplyTextFirst(choices) ==
    IF choices = <<>> THEN <<>>
    ELSE IF Truthy(choices[1].text) THEN choices[1].text.value
    ELSE IF Truthy(choices[1].content) THEN choices[1].content.value
    ELSE <<>>

\* data.choices?.[0]?.message?.content || data.choices?.[0]?.text || ""
ExtractReply(choices) ==
    IF choices = <<>> THEN <<>>
    ELSE IF Truthy(choices[1].content) THEN choices[1].content.value
    ELSE IF Truthy(choices[1].text) THEN choices[1].text.value
    ELSE <<>>

\* the try block after the fetch settles with s: the reply it reaches the
\* update with, or the value it throws
TryOutcome(s) ==
    IF s.rejected THEN [thrown |-> TRUE, error |-> s.error, reply |-> <<>>]
    ELSE IF ~Ok(s.status)
    THEN [thrown |-> TRUE,
          error |-> MkError(<<"API request failed with status ", ToString(s.status)>>),
          reply |-> <<>>]
    ELSE IF ~s.validJson
    THEN [thrown |-> TRUE, error |-> MkError(<<"Unexpected end of JSON input">>),
          reply |-> <<>>]
    ELSE IF ExtractReply(s.choices) = <<>>
    THEN [thrown |-> TRUE, error |-> MkError(<<"No response received from AI.">>),
          reply |-> <<>>]
    ELSE [thrown |-> FALSE, error |-> NonError, reply |-> ExtractReply(s.choices)]

\* the message of the thrown Error without the prefix
ErrorMessageBare(error) ==
    IF error.isError THEN error.message ELSE FallbackText

\* the catch block's errorMessage
ErrorMessage(error) ==
    IF error.isError THEN <<"Error: ">> \o error.message ELSE FallbackText

\* a catch block that leaves the placeholder as it is
SettleTextKeepsThinking(s) ==
    IF TryOutcome(s).thrown THEN ThinkingText ELSE TryOutcome(s).reply

\* the text the settle writes into the placeholder
SettleText(s) ==
    IF TryOutcome(s).thrown THEN ErrorMessage(TryOutcome(s).error)
    ELSE TryOutcome(s).reply

\* an update that adds the reply as a new message
ReplaceByAppend(prev, typingId, text, timestamp) ==
    Append(prev, [id |-> typingId, text |-> text, sender |-> "agent",
                  timestamp |-> timestamp])

\* an update that takes the placeholder out and puts the reply at the end
ReplaceByMove(prev, typingId, text, timestamp) ==
    SelectSeq(prev, LAMBDA m : m.id # typingId)
      \o <<[id |-> typingId, text |-> text, sender |-> "agent",
            timestamp |-> timestamp]>>

\* a settle that writes nothing
ReplaceNothing(prev, typingId, text, timestamp) == prev

\* prev.map(msg => msg.id === typingId ? {...msg, text, timestamp} : msg)
ReplaceById(prev, typingId, text, timestamp) ==
    [p \in 1..Len(prev) |->
        IF prev[p].id = typingId
        THEN [prev[p] EXCEPT !.text = text, !.timestamp = timestamp]
        ELSE prev[p]]

---------------------------------------------------------------------------
(* State *)

\* the data of a message event the hosting page can post: none, or an
\* object with a type and possibly a title
NoData == [hasData |-> FALSE, type |-> "", title |-> Absent]

MessageEvents ==
    {NoData} \cup
    { [hasData |-> TRUE, type |-> type, title |-> title] :
        type \in {"SET_ASSISTANT_TITLE", "RESIZE"},
        title \in {Absent, Present(<<"Acme">>), Present(<<"Beta">>)} }

\* the string that + makes of its left operand
ToText(field) == IF field.present THEN field.value ELSE <<"undefined">>

\* the history record of a step: the handler that ran, the invocation it
\* ran for, the settlement or the message event it was given
Op(name, call, settlement) ==
    [op |-> name, call |-> call, settlement |-> settlement, event |-> NoData]

Init ==
    /\ messages = <<>>
    /\ inputValue = <<>>
    /\ isThinking = FALSE
    /\ now = 0
    /\ calls = <<>>
    /\ timers = <<>>
    /\ requests = <<>>
    /\ assistantTitle = DefaultTitle
    /\ rendered = <<>>
    /\ lastOp = Op("mount", 0, NoSettlement)

\* onChange of the input field, and the two suggestion buttons
SetInputValue(v) ==
    /\ inputValue' = v
    /\ lastOp' = Op("setInputValue", 0, NoSettlement)
    /\ UNCHANGED <<messages, isThinking, now, calls, timers, requests, display>>

\* the clock advances between two events
Tick ==
    /\ now < MaxClock
    /\ now' = now + 1
    /\ lastOp' = Op("tick", 0, NoSettlement)
    /\ UNCHANGED <<messages, inputValue, isThinking, calls, timers, requests,
                   display>>

\* a user message that stores the trimmed text
UserMessageTrimmed(text, t) ==
    [id |-> t, text |-> Trim(text), sender |-> "user", timestamp |-> t]

\* the userMessage object built at time t
UserMessage(text, t) ==
    [id |-> t, text |-> text, sender |-> "user", timestamp |-> t]

\* handleSendMessage up to its first await.  elapsed is the time that passes
\* between the two readings of Date.now().
SendMessage(elapsed) ==
    LET userText == inputValue
        userMessage == UserMessage(userText, now)
        typingId == (now + elapsed) + 1
        call == Len(calls) + 1
    IN  /\ now + elapsed <= MaxClock
        /\ messages' = Append(messages, userMessage)
        /\ inputValue' = <<>>
        /\ isThinking' = TRUE
        /\ now' = now + elapsed
        /\ calls' = Append(calls, [userText |-> userText, typingId |-> typingId,
                                   pc |-> "waiting",
                                   userAt |-> Len(messages) + 1, typingAt |-> 0])
        /\ timers' = timers \o
              <<[call |-> call, kind |-> "typing", delay |-> TypingDelay],
                [call |-> call, kind |-> "wait", delay |-> WaitDelay]>>
        /\ UNCHANGED <<requests, display>>

\* a handler that declines while a request is in flight
HandleSendMessageWhenIdle ==
    /\ lastOp' = Op("handleSendMessage", 0, NoSettlement)
    /\ IF Trim(inputValue) = <<>> \/ isThinking
       THEN UNCHANGED <<messages, inputValue, isThinking, now, calls, timers,
                        requests, display>>
       ELSE \E elapsed \in 0..1 : SendMessage(elapsed)

\* the Send button's onClick and Enter in the input field
HandleSendMessage ==
    /\ lastOp' = Op("handleSendMessage", 0, NoSettlement)
    /\ IF Trim(inputValue) = <<>>
       THEN UNCHANGED <<messages, inputValue, isThinking, now, calls, timers,
                        requests, display>>
       ELSE \E elapsed \in 0..1 : SendMessage(elapsed)

\* timers that run in any order
CanFireInAnyOrder(q, k) == TRUE

\* timer k can run next: no timer set before it with the same or a smaller
\* delay is still pending (timers with equal delays run in the order set)
CanFire(q, k) == \A j \in 1..(k - 1) : q[j].delay > q[k].delay

RemoveAt(q, k) == SubSeq(q, 1, k - 1) \o SubSeq(q, k + 1, Len(q))

\* a callback that puts the placeholder first: [typingMessage, ...prev]
TypingTimerPrepends ==
    /\ \E k \in 1..Len(timers) :
         LET t == timers[k]
             typingMessage == [id |-> calls[t.call].typingId,
                               text |-> ThinkingText,
                               sender |-> "agent", timestamp |-> now]
         IN  /\ CanFire(timers, k)
             /\ t.kind = "typing"
             /\ messages' = <<typingMessage>> \o messages
             /\ calls' = [i \in 1..Len(calls) |->
                            IF i = t.call
                            THEN [calls[i] EXCEPT !.typingAt = 1]
                            ELSE [calls[i] EXCEPT
                                    !.userAt = @ + 1,
                                    !.typingAt = IF @ = 0 THEN 0 ELSE @ + 1]]
             /\ timers' = RemoveAt(timers, k)
             /\ lastOp' = Op("typingTimer", t.call, NoSettlement)
    /\ UNCHANGED <<inputValue, isThinking, now, requests, display>>

\* the callback of the first setTimeout: the placeholder is appended
TypingTimer ==
    /\ \E k \in 1..Len(timers) :
         LET t == timers[k]
             typingMessage == [id |-> calls[t.call].typingId,
                               text |-> ThinkingText,
                               sender |-> "agent", timestamp |-> now]
         IN  /\ CanFire(timers, k)
             /\ t.kind = "typing"
             /\ messages' = Append(messages, typingMessage)
             /\ calls' = [calls EXCEPT ![t.call].typingAt = Len(messages) + 1]
             /\ timers' = RemoveAt(timers, k)
             /\ lastOp' = Op("typingTimer", t.call, NoSettlement)
    /\ UNCHANGED <<inputValue, isThinking, now, requests, display>>

\* a body that carries the whole conversation
RequestBodyAllTurns(userText) ==
    [messages |-> [p \in 1..Len(messages) |->
                     [role |-> messages[p].sender, content |-> messages[p].text]],
     stream |-> FALSE,
     model |-> ModelName]

\* the body of the POST request
RequestBody(userText) ==
    [messages |-> <<[role |-> "user", content |-> userText]>>,
     stream |-> FALSE,
     model |-> ModelName]

\* the awaited promise resolves and the fetch is issued
WaitTimer ==
    /\ \E k \in 1..Len(timers) :
         LET t == timers[k]
         IN  /\ CanFire(timers, k)
             /\ t.kind = "wait"
             /\ requests' = Append(requests,
                    [call |-> t.call, method |-> "POST",
                     body |-> RequestBody(calls[t.call].userText)])
             /\ calls' = [calls EXCEPT ![t.call].pc = "fetching"]
             /\ timers' = RemoveAt(timers, k)
             /\ lastOp' = Op("waitTimer", t.call, NoSettlement)
    /\ UNCHANGED <<messages, inputValue, isThinking, now, display>>

\* a handler that clears the flag at the end of the try block only
SettleWithoutFinally(i, s) ==
    /\ calls[i].pc = "fetching"
    /\ messages' = ReplaceById(messages, calls[i].typingId, SettleText(s), now)
    /\ isThinking' = (TryOutcome(s).thrown /\ isThinking)
    /\ calls' = [calls EXCEPT ![i].pc = "done"]
    /\ lastOp' = Op("settle", i, s)
    /\ UNCHANGED <<inputValue, now, timers, requests, display>>

\* the fetch of call i settles with s: the rest of the try block, the catch
\* block and the finally block
Settle(i, s) ==
    /\ calls[i].pc = "fetching"
    /\ messages' = ReplaceById(messages, calls[i].typingId, SettleText(s), now)
    /\ isThinking' = FALSE
    /\ calls' = [calls EXCEPT ![i].pc = "done"]
    /\ lastOp' = Op("settle", i, s)
    /\ UNCHANGED <<inputValue, now, timers, requests, display>>

\* a handler that takes the title of every event that has one
HandleAnyMessage(event) ==
    /\ IF event.hasData
       THEN assistantTitle' = ToText(event.title) \o <<" Assistant">>
       ELSE UNCHANGED assistantTitle
    /\ lastOp' = [Op("message", 0, NoSettlement) EXCEPT !.event = event]
    /\ UNCHANGED <<messages, inputValue, isThinking, now, calls, timers,
                   requests, rendered>>

\* handleMessage: the listener for the message events of the window
HandleMessage(event) ==
    /\ IF event.hasData /\ event.type = "SET_ASSISTANT_TITLE"
       THEN assistantTitle' = ToText(event.title) \o <<" Assistant">>
       ELSE UNCHANGED assistantTitle
    /\ lastOp' = [Op("message", 0, NoSettlement) EXCEPT !.event = event]
    /\ UNCHANGED <<messages, inputValue, isThinking, now, calls, timers,
                   requests, rendered>>

---------------------------------------------------------------------------
(* The renderer: parseMarkdown and renderBoldText *)

\* the length of the longest agent text the renderer is explored with
MaxTextLen == 5

Dash == "-"

\* the bullet character U+2022
Dot == "U+2022"

Star == "*"

Newline == "\n"

BoldMarker == <<Star, Star>>

\* the characters of the agent texts the renderer is explored with
MdAlphabet == {Dash, Dot, Star, " ", "a", Newline}

MdTexts == UNION { [1..n -> MdAlphabet] : n \in 0..MaxTextLen }

\* String.prototype.startsWith
StartsWith(s, prefix) ==
    Len(s) >= Len(prefix) /\ SubSeq(s, 1, Len(prefix)) = prefix

\* String.prototype.endsWith
EndsWith(s, suffix) ==
    Len(s) >= Len(suffix) /\ SubSeq(s, Len(s) - Len(suffix) + 1, Len(s)) = suffix

\* text.split("\n")
RECURSIVE SplitLines(_)
SplitLines(text) ==
    LET breaks == {p \in 1..Len(text) : text[p] = Newline}
    IN  IF breaks = {}
        THEN <<text>>
        ELSE LET p == CHOOSE q \in breaks : \A r \in breaks : q <= r
             IN  <<SubSeq(text, 1, p - 1)>>
                   \o SplitLines(SubSeq(text, p + 1, Len(text)))

\* a replace that removes the marker and leaves the whitespace after it
StripMarkerOnly(line) ==
    IF line # <<>> /\ Head(line) \in {Dash, Dot} THEN Tail(line) ELSE line

\* trimmedLine.replace(/^[-\u2022]\s*/, "")
StripMarker(line) ==
    IF line # <<>> /\ Head(line) \in {Dash, Dot}
    THEN TrimStart(Tail(line))
    ELSE line

\* the positions where /\*\*.*?\*\*/ matches: a marker with a later marker
\* that does not overlap it
MatchStarts(s) ==
    {i \in 1..Len(s) :
        /\ StartsWith(SubSeq(s, i, Len(s)), BoldMarker)
        /\ \E j \in (i + 2)..Len(s) : StartsWith(SubSeq(s, j, Len(s)), BoldMarker)}

\* the last position of the shortest match that starts at i
MatchEnd(s, i) ==
    1 + CHOOSE j \in (i + 2)..Len(s) :
            /\ StartsWith(SubSeq(s, j, Len(s)), BoldMarker)
            /\ \A k \in (i + 2)..(j - 1) :
                   ~StartsWith(SubSeq(s, k, Len(s)), BoldMarker)

\* text.split(/(\*\*.*?\*\*)/g): the text before each match and the match,
\* then the text after the last match
RECURSIVE SplitBold(_)
SplitBold(s) ==
    IF MatchStarts(s) = {}
    THEN <<s>>
    ELSE LET i == CHOOSE a \in MatchStarts(s) : \A b \in MatchStarts(s) : a <= b
             j == MatchEnd(s, i)
         IN  <<SubSeq(s, 1, i - 1), SubSeq(s, i, j)>>
               \o SplitBold(SubSeq(s, j + 1, Len(s)))

\* part.slice(2, -2)
Slice2(part) == SubSeq(part, 3, Len(part) - 2)

\* renderBoldText: one span per part, keyed by the part's index
RenderBoldText(text) ==
    LET parts == SplitBold(text)
    IN  [idx \in 1..Len(parts) |->
            IF StartsWith(parts[idx], BoldMarker) /\ EndsWith(parts[idx], BoldMarker)
            THEN [key |-> idx - 1, bold |-> TRUE, text |-> Slice2(parts[idx])]
            ELSE [key |-> idx - 1, bold |-> FALSE, text |-> parts[idx]]]

\* what elements.push adds for one line: nothing for a line that trims to
\* the empty string
LineElement(line, index) ==
    LET trimmedLine == Trim(line)
    IN  IF trimmedLine = <<>>
        THEN <<>>
        ELSE IF \/ StartsWith(trimmedLine, <<Dash, " ", Star, Star>>)
                \/ StartsWith(trimmedLine, <<Dot, " ", Star, Star>>)
        THEN LET content == StripMarker(trimmedLine)
             IN  <<[key |-> index, kind |-> "boldBullet", content |-> content,
                    spans |-> RenderBoldText(content)]>>
        ELSE IF StartsWith(trimmedLine, <<Dash>>) \/ StartsWith(trimmedLine, <<Dot>>)
        THEN LET content == StripMarker(trimmedLine)
             IN  <<[key |-> index, kind |-> "bullet", content |-> content,
                    spans |-> RenderBoldText(content)]>>
        ELSE <<[key |-> index, kind |-> "text", content |-> trimmedLine,
                spans |-> RenderBoldText(trimmedLine)]>>

RECURSIVE Elements(_, _)
Elements(lines, from) ==
    IF from > Len(lines)
    THEN <<>>
    ELSE LineElement(lines[from], from - 1) \o Elements(lines, from + 1)

\* a parser that keys a block by its place among the blocks
ParseMarkdownKeyByPlace(text) ==
    LET elements == Elements(SplitLines(text), 1)
    IN  [e \in 1..Len(elements) |-> [elements[e] EXCEPT !.key = e - 1]]

\* parseMarkdown: the blocks of a text, in line order
ParseMarkdown(text) == Elements(SplitLines(text), 1)

\* the body of one message bubble
RenderMessage(message) ==
    IF message.sender = "agent"
    THEN [formatted |-> TRUE, blocks |-> ParseMarkdown(message.text)]
    ELSE [formatted |-> FALSE, text |-> message.text]

\* a render pass of the message list
Render ==
    /\ rendered' = [p \in 1..Len(messages) |-> RenderMessage(messages[p])]
    /\ lastOp' = Op("render", 0, NoSettlement)
    /\ UNCHANGED <<messages, inputValue, isThinking, now, calls, timers,
                   requests, assistantTitle>>

\* the component mounted with one message already in its list
InitRender ==
    /\ \E text \in MdTexts : \E sender \in {"user", "agent"} :
           messages = <<[id |-> 0, text |-> text, sender |-> sender,
                         timestamp |-> 0]>>
    /\ inputValue = <<>>
    /\ isThinking = FALSE
    /\ now = 0
    /\ calls = <<>>
    /\ timers = <<>>
    /\ requests = <<>>
    /\ assistantTitle = DefaultTitle
    /\ rendered = <<>>
    /\ lastOp = Op("mount", 0, NoSettlement)

NextRender == Render

SpecRender == InitRender /\ [][NextRender]_vars

\* the component with up to MaxSubmits overlapping submits
Next ==
    \/ \E v \in CoreInputTexts : SetInputValue(v)
    \/ Len(calls) < MaxSubmits /\ HandleSendMessage
    \/ TypingTimer
    \/ WaitTimer
    \/ \E i \in 1..Len(calls) : \E s \in CoreSettlements : Settle(i, s)
    \/ Tick

Spec == Init /\ [][Next]_vars

\* the component with every settlement a fetch can have
NextReplies ==
    \/ \E v \in InputTexts : SetInputValue(v)
    \/ Len(calls) < MaxReplySubmits /\ HandleSendMessage
    \/ TypingTimer
    \/ WaitTimer
    \/ \E i \in 1..Len(calls) : \E s \in Settlements : Settle(i, s)
    \/ Tick

SpecReplies == Init /\ [][NextReplies]_vars

\* the component when every timer that is set runs and every request that
\* is issued settles
SpecLive ==
    /\ Spec
    /\ WF_vars(TypingTimer)
    /\ WF_vars(WaitTimer)
    /\ WF_vars(\E i \in 1..Len(calls) : \E s \in CoreSettlements : Settle(i, s))

\* the component with message events arriving between the steps of a submit
NextTitle ==
    \/ \E v \in CoreInputTexts : SetInputValue(v)
    \/ Len(calls) < MaxReplySubmits /\ HandleSendMessage
    \/ TypingTimer
    \/ WaitTimer
    \/ \E i \in 1..Len(calls) : \E s \in CoreSettlements : Settle(i, s)
    \/ \E event \in MessageEvents : HandleMessage(event)

SpecTitle == Init /\ [][NextTitle]_vars

---------------------------------------------------------------------------
(* Properties *)

\* a string with no character other than whitespace
IsBlank(s) == \A k \in 1..Len(s) : s[k] \in Whitespace

\* the step is one run of the named handler
StepOf(name) == lastOp'.op = name

AgentPositions == {p \in 1..Len(messages) : messages[p].sender = "agent"}

ThinkingPositions == {p \in AgentPositions : messages[p].text = ThinkingText}

Unsettled == {i \in 1..Len(calls) : calls[i].pc # "done"}

\* C1: a submit with a buffer that is not blank appends exactly one user
\* message at the end, whose text is the raw buffer; the buffer becomes empty
\* and the request-in-flight flag becomes true
C1_SubmitAppendsUserMessage ==
    [][ (StepOf("handleSendMessage") /\ ~IsBlank(inputValue)) =>
          /\ Len(messages') = Len(messages) + 1
          /\ SubSeq(messages', 1, Len(messages)) = messages
          /\ messages'[Len(messages')].sender = "user"
          /\ messages'[Len(messages')].text = inputValue
          /\ inputValue' = <<>>
          /\ isThinking' = TRUE ]_vars

\* a submit of a buffer with surrounding whitespace has just been accepted
C1_Witness ==
    /\ lastOp.op = "handleSendMessage"
    /\ messages # <<>>
    /\ messages[Len(messages)].sender = "user"
    /\ messages[Len(messages)].text = <<" ", "hi", " ">>
    /\ inputValue = <<>>
    /\ isThinking

\* C2: a submit with an empty or whitespace-only buffer changes nothing: no
\* message, the same buffer and flag, no timer, no request
C2_BlankSubmitIsNoOp ==
    [][ (StepOf("handleSendMessage") /\ IsBlank(inputValue)) =>
          UNCHANGED <<messages, inputValue, isThinking, now, calls, timers,
                      requests>> ]_vars

\* a whitespace-only buffer has just been submitted while a request is in flight
C2_Witness ==
    /\ lastOp.op = "handleSendMessage"
    /\ inputValue = <<" ">>
    /\ isThinking
    /\ Len(messages) = 2
    /\ Len(requests) = 1

\* C3: every accepted submit appends exactly one "Thinking..." placeholder;
\* the settle of its request writes the final text and the current time into
\* that same element; there are never more agent messages than accepted submits
C3_OnePlaceholderPerSubmit ==
    /\ [](/\ Cardinality(AgentPositions) <= Len(calls)
          /\ Cardinality(AgentPositions)
               = Cardinality({i \in 1..Len(calls) : calls[i].typingAt # 0})
          /\ \A i \in 1..Len(calls) :
                calls[i].typingAt # 0 =>
                  /\ calls[i].typingAt \in AgentPositions
                  /\ messages[calls[i].typingAt].id = calls[i].typingId)
    /\ [][ /\ StepOf("typingTimer") =>
                /\ Len(messages') = Len(messages) + 1
                /\ messages'[Len(messages')].text = ThinkingText
                /\ messages'[Len(messages')].sender = "agent"
           /\ StepOf("settle") =>
                LET p == calls[lastOp'.call].typingAt
                IN  /\ p \in 1..Len(messages)
                    /\ Len(messages') = Len(messages)
                    /\ messages'[p].id = messages[p].id
                    /\ messages'[p].id = calls[lastOp'.call].typingId
                    /\ messages'[p].sender = "agent"
                    /\ messages'[p].text # ThinkingText
                    /\ messages'[p].timestamp = now' ]_vars

\* a placeholder appended at time 0 has been given its final text at time 1
C3_Witness ==
    /\ lastOp.op = "settle"
    /\ calls[lastOp.call].typingAt = 2
    /\ messages[2].text = <<"Hello">>
    /\ messages[2].timestamp = 1
    /\ messages[1].timestamp = 0

\* C4: when the request of a submit has been issued, and so whenever it
\* settles, the placeholder of that submit is already in the conversation
C4_PlaceholderBeforeSettle ==
    \A i \in 1..Len(calls) :
        calls[i].pc \in {"fetching", "done"} =>
          /\ calls[i].typingAt \in 1..Len(messages)
          /\ messages[calls[i].typingAt].id = calls[i].typingId
          /\ messages[calls[i].typingAt].sender = "agent"

\* the second of two overlapping submits has settled first, into its placeholder
C4_Witness ==
    /\ Len(calls) = 2
    /\ lastOp.op = "settle"
    /\ lastOp.call = 2
    /\ calls[1].pc = "fetching"
    /\ calls[1].typingId # calls[2].typingId
    /\ messages[calls[2].typingAt].text = SettleText(lastOp.settlement)
    /\ messages[calls[1].typingAt].text = ThinkingText

\* C5: all ids in the conversation are pairwise distinct
C5_IdsDistinct ==
    \A p, q \in 1..Len(messages) :
        p # q => messages[p].id # messages[q].id

\* C6 as stated: at most one agent message has the text "Thinking..."
C6_AtMostOneThinking == Cardinality(ThinkingPositions) <= 1

\* C6, amended: there are at most as many "Thinking..." agent messages as
\* accepted submits whose request has not settled
C6_ThinkingAtMostUnsettled ==
    Cardinality(ThinkingPositions) <= Cardinality(Unsettled)

\* two placeholders are pending at once
C6_Witness ==
    /\ Cardinality(ThinkingPositions) = 2
    /\ Cardinality(Unsettled) = 2

\* the settlement of the step, and the position of the placeholder that the
\* settling call appended
SettledWith == lastOp'.settlement

SettledAt == calls[lastOp'.call].typingAt

Is2xx(s) == ~s.rejected /\ s.status \in 200..299

\* the first choice's message.content when present and non-empty, otherwise
\* its text when present and non-empty, otherwise nothing
FirstChoiceReply(s) ==
    IF s.choices = <<>> THEN <<>>
    ELSE LET first == s.choices[1]
         IN  IF first.content.present /\ first.content.value # <<>>
             THEN first.content.value
             ELSE IF first.text.present /\ first.text.value # <<>>
             THEN first.text.value
             ELSE <<>>

\* C7: on a 2xx response with a JSON body the placeholder gets exactly the
\* first choice's message.content, else the first choice's text; with neither
\* the request fails with "No response received" and no empty text is written
C7_ReplyExtraction ==
    [][ (StepOf("settle") /\ Is2xx(SettledWith) /\ SettledWith.validJson) =>
          /\ FirstChoiceReply(SettledWith) # <<>> =>
                messages'[SettledAt].text = FirstChoiceReply(SettledWith)
          /\ FirstChoiceReply(SettledWith) = <<>> =>
                messages'[SettledAt].text
                  = <<"Error: ", "No response received from AI.">>
          /\ messages'[SettledAt].text # <<>> ]_vars

\* a response whose first choice has only a text field has been written
C7_Witness ==
    /\ lastOp.op = "settle"
    /\ lastOp.settlement.status = 200
    /\ lastOp.settlement.choices
         = <<[content |-> Absent, text |-> Present(<<"Hi there">>)]>>
    /\ messages[calls[lastOp.call].typingAt].text = <<"Hi there">>

\* C8: every failure replaces the placeholder's text by an error string and
\* refreshes its timestamp: the status line for a non-2xx code, "No response
\* received" for a 2xx body with no reply, "Error: m" for a thrown Error with
\* message m, the fallback string for a thrown value that is no Error
C8_FailureText ==
    [][ StepOf("settle") =>
          LET s == SettledWith
              m == messages'[SettledAt]
              failed == \/ s.rejected
                        \/ ~Is2xx(s)
                        \/ ~s.validJson
                        \/ FirstChoiceReply(s) = <<>>
          IN  /\ (s.rejected /\ s.error.isError) =>
                    m.text = <<"Error: ">> \o s.error.message
              /\ (s.rejected /\ ~s.error.isError) => m.text = FallbackText
              /\ (~s.rejected /\ ~Is2xx(s)) =>
                    m.text = <<"Error: ", "API request failed with status ",
                               ToString(s.status)>>
              /\ (Is2xx(s) /\ s.validJson /\ FirstChoiceReply(s) = <<>>) =>
                    m.text = <<"Error: ", "No response received from AI.">>
              /\ failed =>
                    /\ m.text # ThinkingText
                    /\ \/ m.text = FallbackText
                       \/ (m.text # <<>> /\ Head(m.text) = "Error: ")
                    /\ m.timestamp = now' ]_vars

\* a status 500 has been written into a placeholder created earlier
C8_Witness ==
    /\ lastOp.op = "settle"
    /\ lastOp.settlement.status = 500
    /\ messages[calls[lastOp.call].typingAt].text
         = <<"Error: ", "API request failed with status ", "500">>
    /\ messages[calls[lastOp.call].typingAt].timestamp = 1
    /\ messages[1].timestamp = 0

\* C9: a settle changes only the text and the timestamp of the placeholder of
\* the settling request; every other message, the length and order of the
\* conversation and the input buffer stay as they were
C9_SettleFrame ==
    [][ StepOf("settle") =>
          /\ Len(messages') = Len(messages)
          /\ messages'[SettledAt].id = messages[SettledAt].id
          /\ messages'[SettledAt].sender = messages[SettledAt].sender
          /\ \A p \in 1..Len(messages) :
                p # SettledAt => messages'[p] = messages[p]
          /\ inputValue' = inputValue ]_vars

\* C10: a user message never changes, and an agent message changes only
\* while its text is "Thinking..."
C10_FinalizedOnce ==
    [][ \A p \in 1..Len(messages) :
          (messages[p].sender = "user" \/ messages[p].text # ThinkingText) =>
            messages'[p] = messages[p] ]_vars

\* the ids of the conversation, in order
Ids(msgs) == [p \in 1..Len(msgs) |-> msgs[p].id]

\* C11: the conversation starts empty, and every step leaves the sequence of
\* ids as it is or appends one id at its end
C11_AppendOnly ==
    /\ messages = <<>>
    /\ [][ \/ Ids(messages') = Ids(messages)
           \/ /\ Len(messages') = Len(messages) + 1
              /\ SubSeq(Ids(messages'), 1, Len(messages)) = Ids(messages) ]_vars

\* the first of two overlapping requests has settled with both placeholders
\* in the conversation
C11_Witness ==
    /\ lastOp.op = "settle"
    /\ lastOp.call = 1
    /\ Len(messages) = 4
    /\ calls[1].typingAt = 3
    /\ messages[3].text # ThinkingText

RequestsOf(i) == {r \in 1..Len(requests) : requests[r].call = i}

\* C12: a submit has one request once its wait is over and none before, never
\* two; every request is a POST whose body has the submit's text as its only
\* turn, with role user, stream false and the fixed model
C12_OneRequestPerSubmit ==
    /\ \A i \in 1..Len(calls) :
          Cardinality(RequestsOf(i))
            = IF calls[i].pc \in {"fetching", "done"} THEN 1 ELSE 0
    /\ \A r \in 1..Len(requests) :
          /\ requests[r].call \in 1..Len(calls)
          /\ requests[r].method = "POST"
          /\ requests[r].body.messages
               = <<[role |-> "user", content |-> calls[requests[r].call].userText]>>
          /\ requests[r].body.stream = FALSE
          /\ requests[r].body.model = "cx-kpi-insights-nlp-agent"

\* the second submit's request has failed, with two messages before it in
\* the conversation, and there is still one request for each submit
C12_Witness ==
    /\ lastOp.op = "settle"
    /\ lastOp.call = 2
    /\ lastOp.settlement.status = 500
    /\ Len(requests) = 2
    /\ calls[2].userAt = 3
    /\ requests[2].body.messages
         = <<[role |-> "user", content |-> <<" ", "hi", " ">>]>>

\* C13: in the state right after a settle, by a reply or by any failure, the
\* request-in-flight flag is false
C13_SettleClearsFlag == lastOp.op = "settle" => isThinking = FALSE

\* a request has just failed while another request is in flight
C13_Witness ==
    /\ lastOp.op = "settle"
    /\ TryOutcome(lastOp.settlement).thrown
    /\ \E i \in 1..Len(calls) : calls[i].pc = "fetching"
    /\ ~isThinking

\* C14: a submit of a buffer that is not blank is accepted whatever the flag
\* and whatever earlier requests ended with: one user message is appended,
\* one placeholder timer and one wait for the request are set
C14_SubmitAlwaysAccepted ==
    [][ (StepOf("handleSendMessage") /\ ~IsBlank(inputValue)) =>
          /\ Len(calls') = Len(calls) + 1
          /\ Len(messages') = Len(messages) + 1
          /\ messages'[Len(messages')].sender = "user"
          /\ Len(timers') = Len(timers) + 2
          /\ Cardinality({k \in 1..Len(timers') :
                 timers'[k].call = Len(calls') /\ timers'[k].kind = "typing"}) = 1
          /\ Cardinality({k \in 1..Len(timers') :
                 timers'[k].call = Len(calls') /\ timers'[k].kind = "wait"}) = 1
          /\ calls'[Len(calls')].pc = "waiting" ]_vars

\* a submit has just been accepted while the request of an earlier one was
\* in flight
C14_Witness ==
    /\ lastOp.op = "handleSendMessage"
    /\ Len(calls) = 2
    /\ calls[1].pc = "fetching"
    /\ calls[2].pc = "waiting"
    /\ Len(messages) = 3

\* a submit has just been accepted after the earlier request ended in an error
C14_WitnessAfterError ==
    /\ lastOp.op = "handleSendMessage"
    /\ Len(calls) = 2
    /\ calls[1].pc = "done"
    /\ messages[calls[1].typingAt].text = FallbackText
    /\ calls[2].pc = "waiting"

---------------------------------------------------------------------------
(* Properties of the renderer *)

\* the number of the line, counted from 0, that position p of text t is in
LineIndexOf(t, p) == Cardinality({q \in 1..(p - 1) : t[q] = Newline})

\* the lines of t that have a character other than whitespace
NonBlankLines(t) ==
    {LineIndexOf(t, p) : p \in {q \in 1..Len(t) : t[q] \notin Whitespace}}

\* line k of t, a line that is not blank, without the whitespace around it
LineAt(t, k) ==
    LET inked == {p \in 1..Len(t) : t[p] \notin Whitespace /\ LineIndexOf(t, p) = k}
        first == CHOOSE p \in inked : \A q \in inked : p <= q
        last  == CHOOSE p \in inked : \A q \in inked : q <= p
    IN  SubSeq(t, first, last)

\* what is left of a line after its first character and the whitespace
\* that follows it
AfterMarker(l) ==
    LET inked == {p \in 2..Len(l) : l[p] \notin Whitespace}
    IN  IF inked = {}
        THEN <<>>
        ELSE SubSeq(l, CHOOSE p \in inked : \A q \in inked : p <= q, Len(l))

\* the formatted messages of the last render pass
Formatted ==
    IF lastOp.op = "render"
    THEN {p \in 1..Len(rendered) : rendered[p].formatted}
    ELSE {}

\* C15: the renderer produces one block for each line that is not blank
\* after trimming and none for the other lines; the blocks are in line order
\* and the key of a block is the index of its line in the split input, so
\* the keys increase strictly
C15_OneBlockPerLine ==
    \A p \in Formatted :
        LET blocks == rendered[p].blocks
            text == messages[p].text
        IN  /\ Len(blocks) = Cardinality(NonBlankLines(text))
            /\ {blocks[k].key : k \in 1..Len(blocks)} = NonBlankLines(text)
            /\ \A k \in 1..(Len(blocks) - 1) : blocks[k].key < blocks[k + 1].key

\* a text with a blank line between two lines has been rendered
C15_Witness ==
    /\ Formatted = {1}
    /\ Len(rendered[1].blocks) = 2
    /\ rendered[1].blocks[1].key = 0
    /\ rendered[1].blocks[2].key = 2

\* the kind the claim gives a line: bold-bulleted when ** follows the marker
\* after any number of spaces
KindAnySpaces(l) ==
    IF Head(l) \in {Dash, Dot}
    THEN IF StartsWith(AfterMarker(l), BoldMarker) THEN "boldBullet" ELSE "bullet"
    ELSE "text"

\* bold-bulleted when exactly one space and then ** follow the marker
KindOneSpace(l) ==
    IF Head(l) \in {Dash, Dot}
    THEN IF StartsWith(Tail(l), <<" ">> \o BoldMarker) THEN "boldBullet" ELSE "bullet"
    ELSE "text"

\* the content of a block: a bulleted line loses its marker and the
\* whitespace after it
ContentOf(l) == IF Head(l) \in {Dash, Dot} THEN AfterMarker(l) ELSE l

\* C16: a line starting with - or the bullet character followed by **,
\* directly or after one or several spaces, is a bold-bulleted block; any
\* other line starting with a marker is a plain-bulleted block; every other
\* line is a text block; a bulleted block's content is the line without the
\* marker and the whitespace after it
C16_Classification ==
    \A p \in Formatted :
        \A k \in 1..Len(rendered[p].blocks) :
            LET block == rendered[p].blocks[k]
                line == LineAt(messages[p].text, block.key)
            IN  /\ block.kind = KindAnySpaces(line)
                /\ block.content = ContentOf(line)

\* C16 amended: a line is a bold-bulleted block exactly when it starts with
\* a marker, one space and **; any other line starting with a marker is a
\* plain-bulleted block; every other line is a text block; a bulleted
\* block's content is the line without the marker and the whitespace after it
C16_ClassificationOneSpace ==
    \A p \in Formatted :
        \A k \in 1..Len(rendered[p].blocks) :
            LET block == rendered[p].blocks[k]
                line == LineAt(messages[p].text, block.key)
            IN  /\ block.kind \in {"boldBullet", "bullet", "text"}
                /\ block.kind = KindOneSpace(line)
                /\ block.content = ContentOf(line)

\* a line with a marker, one space and ** has been rendered
C16_Witness ==
    /\ Formatted = {1}
    /\ Len(rendered[1].blocks) = 1
    /\ rendered[1].blocks[1].kind = "boldBullet"
    /\ rendered[1].blocks[1].content = <<Star, Star, "a">>

\* a line with ** directly after the marker has been rendered as a plain
\* bullet
C16_WitnessDirect ==
    /\ Formatted = {1}
    /\ messages[1].text = <<Dash, Star, Star, "a">>
    /\ rendered[1].blocks[1].kind = "bullet"

\* the content the spans stand for: the text of a bold span is between two
\* markers
RECURSIVE Unrendered(_)
Unrendered(spans) ==
    IF spans = <<>>
    THEN <<>>
    ELSE (IF Head(spans).bold
          THEN BoldMarker \o Head(spans).text \o BoldMarker
          ELSE Head(spans).text) \o Unrendered(Tail(spans))

\* C17: the spans of a block are, in order, the text between each pair of
\* ** markers as a bold span and the rest of the content as plain spans; an
\* unmatched marker stays in a plain span, so nothing but the matched markers
\* is dropped
C17_NothingDropped ==
    \A p \in Formatted :
        \A k \in 1..Len(rendered[p].blocks) :
            LET block == rendered[p].blocks[k]
            IN  /\ Unrendered(block.spans) = block.content
                /\ \A n \in 1..Len(block.spans) : block.spans[n].key = n - 1

\* a content with a pair of markers around a character has been rendered
C17_WitnessPair ==
    /\ Formatted = {1}
    /\ Len(rendered[1].blocks) = 1
    /\ rendered[1].blocks[1].content = <<Star, Star, "a", Star, Star>>
    /\ rendered[1].blocks[1].spans[2] = [key |-> 1, bold |-> TRUE, text |-> <<"a">>]

---------------------------------------------------------------------------
(* Properties of the title *)

\* the step is the arrival of a message event that sets the title
SetsTitle ==
    /\ StepOf("message")
    /\ lastOp'.event.hasData
    /\ lastOp'.event.type = "SET_ASSISTANT_TITLE"

\* C18: the title is the default until a SET_ASSISTANT_TITLE event arrives;
\* such an event makes it the event's title followed by " Assistant"; no
\* other event and no other step changes it, so it is always that of the
\* most recent such event; a message event changes neither the
\* conversation, nor the input buffer, nor the request-in-flight flag
C18_TitleFollowsEvents ==
    /\ assistantTitle = <<"FanViz Analytics Assistant">>
    /\ [][ /\ (SetsTitle /\ lastOp'.event.title.present) =>
                 assistantTitle' = lastOp'.event.title.value \o <<" Assistant">>
           /\ ~SetsTitle => assistantTitle' = assistantTitle
           /\ StepOf("message") =>
                 /\ messages' = messages
                 /\ inputValue' = inputValue
                 /\ isThinking' = isThinking ]_vars

\* an event of another type has just arrived while a request was in flight
\* and after the title had been set, and the title is still the one set
C18_Witness ==
    /\ lastOp.op = "message"
    /\ lastOp.event.type = "RESIZE"
    /\ lastOp.event.title = Present(<<"Acme">>)
    /\ assistantTitle = <<"Beta", " Assistant">>
    /\ isThinking
    /\ Len(messages) = 2

---------------------------------------------------------------------------
(* Properties of overlapping submits *)

\* C19: when a request settles while two or more submits are in flight, in
\* whatever order they settle, its reply or error text goes into the
\* placeholder of its own submit and into no other message, and the texts of
\* the other submits' placeholders stay as they were
C19_SettleHitsOwnPlaceholder ==
    [][ (StepOf("settle") /\ Cardinality(Unsettled) >= 2) =>
          /\ messages'[SettledAt].sender = "agent"
          /\ messages'[SettledAt].text # ThinkingText
          /\ \A p \in 1..Len(messages') :
                p # SettledAt => messages'[p].text = messages[p].text ]_vars

\* the second of two submits in flight has settled before the first, and
\* only its own placeholder has the reply
C19_WitnessReverse ==
    /\ lastOp.op = "settle"
    /\ lastOp.call = 2
    /\ calls[1].pc = "fetching"
    /\ calls[1].typingAt # 0
    /\ messages[calls[1].typingAt].text = ThinkingText
    /\ messages[calls[2].typingAt].text # ThinkingText

\* C20: when timers run and requests settle, every accepted submit gets to a
\* state where its placeholder is in the conversation with a text other
\* than "Thinking..."; and whenever no accepted submit is left unsettled the
\* request-in-flight flag is false
C20_EverySubmitFinalized ==
    /\ \A i \in 1..MaxSubmits :
          [](Len(calls) >= i =>
               <>(/\ Len(calls) >= i
                  /\ calls[i].typingAt # 0
                  /\ messages[calls[i].typingAt].sender = "agent"
                  /\ messages[calls[i].typingAt].text # ThinkingText))
    /\ [](Unsettled = {} => ~isThinking)

\* two overlapping submits have both been finalized, the second after the
\* first, and the flag is false
C20_Witness ==
    /\ Len(calls) = 2
    /\ Unsettled = {}
    /\ lastOp.op = "settle"
    /\ lastOp.call = 2
    /\ calls[1].typingAt > calls[2].userAt
    /\ messages[calls[1].typingAt].text # ThinkingText
    /\ messages[calls[2].typingAt].text # ThinkingText
    /\ ~isThinking

---------------------------------------------------------------------------
(* Properties of the order of the placeholder and the request *)

\* the pending waits of the submits whose placeholder is not yet appended
WaitsBeforePlaceholder ==
    {k \in 1..Len(timers) :
        timers[k].kind = "wait" /\ calls[timers[k].call].typingAt = 0}

\* C21: issuing the request of a submit is not gated on its placeholder:
\* while the placeholder is not yet in the conversation, the wait that
\* issues the request can already run
C21_RequestNotGated ==
    \A k \in WaitsBeforePlaceholder : CanFire(timers, k)

\* C21 amended: the request of a submit is issued after its placeholder
\* timer has run: every request that has been issued belongs to a submit
\* whose placeholder is in the conversation, and the step that issues the
\* request starts in a state where that placeholder is already there
C21_RequestAfterPlaceholder ==
    /\ [](\A r \in 1..Len(requests) :
            calls[requests[r].call].typingAt \in 1..Len(messages))
    /\ [][ StepOf("waitTimer") =>
             /\ Len(requests') = Len(requests) + 1
             /\ requests'[Len(requests')].call = lastOp'.call
             /\ calls[lastOp'.call].typingAt \in 1..Len(messages)
             /\ messages[calls[lastOp'.call].typingAt].sender = "agent"
             /\ messages[calls[lastOp'.call].typingAt].id
                  = calls[lastOp'.call].typingId ]_vars

\* the request of the first submit has just been issued, with its
\* placeholder still pending in the conversation
C21_Witness ==
    /\ lastOp.op = "waitTimer"
    /\ lastOp.call = 1
    /\ Len(requests) = 1
    /\ calls[1].pc = "fetching"
    /\ calls[1].typingAt = 2
    /\ messages[2].text = ThinkingText

\* a submit has been accepted and neither of its timers has run
C21_WitnessPending ==
    /\ WaitsBeforePlaceholder # {}
    /\ requests = <<>>

---------------------------------------------------------------------------
(* Properties of the flag and of the order of the messages *)

\* C22: while an accepted submit has not settled, the request-in-flight
\* flag is true; the settle of one of two submits in flight does not leave
\* it false while the other is pending
C22_FlagWhileUnsettled == Unsettled # {} => isThinking

\* one of two submits in flight has settled and the placeholder of the other
\* is still pending
C22_WitnessOverlap ==
    /\ lastOp.op = "settle"
    /\ Cardinality(Unsettled) = 1
    /\ \E i \in Unsettled :
          /\ calls[i].typingAt # 0
          /\ messages[calls[i].typingAt].text = ThinkingText

\* C23: the agent message of a submit is later in the conversation than
\* the submit's user message, and the agent messages are in the order of
\* their submits, whatever the order in which the requests settle
C23_AgentOrder ==
    /\ \A p \in AgentPositions : \E i \in 1..Len(calls) : calls[i].typingAt = p
    /\ \A i \in 1..Len(calls) :
          /\ calls[i].userAt \in 1..Len(messages)
          /\ messages[calls[i].userAt].sender = "user"
          /\ calls[i].typingAt # 0 =>
                /\ calls[i].typingAt \in AgentPositions
                /\ calls[i].userAt < calls[i].typingAt
    /\ \A i, j \in 1..Len(calls) :
          (i < j /\ calls[j].typingAt # 0) =>
            /\ calls[i].typingAt # 0
            /\ calls[i].typingAt < calls[j].typingAt
            /\ calls[i].userAt < calls[j].userAt

\* two overlapping submits have settled in the reverse order, and the agent
\* message of the first is not next to its user message
C23_Witness ==
    /\ Len(calls) = 2
    /\ Unsettled = {}
    /\ lastOp.op = "settle"
    /\ lastOp.call = 1
    /\ calls[1].userAt = 1
    /\ calls[2].userAt = 2
    /\ calls[1].typingAt = 3
    /\ calls[2].typingAt = 4
    /\ messages[3].text # ThinkingText
    /\ messages[4].text # ThinkingText

====
